---- MODULE Spec2Model ----
(***************************************************************************)
(* rss2discord: the delivery-state ledger of DiscordRSS                    *)
(* (src/rss2discord/__init__.py).                                          *)
(*                                                                         *)
(* A run is: construct DiscordRSS (load the ledger file), process() every  *)
(* configured feed, entry by entry, then flushdb() (prune and save).       *)
(* A Python dict is a function whose DOMAIN is the set of keys present.    *)
(* Timestamps are counted in days, the unit of --max-age.                  *)
(*                                                                         *)
(* Specifications:                                                         *)
(*   Spec         any sequence of runs, any options, feeds that change     *)
(*   SpecRuns     consecutive plain runs over feeds that never change      *)
(*   SpecRetry    consecutive plain runs over a feed that changes          *)
(*   SpecLoad     runs that find any kind of file at the ledger path       *)
(*   SpecRefresh  one run over a ledger written when links were different  *)
(*   SpecFlush    flushdb over ledgers of every age                        *)
(*   SpecEmbed    the image step of process_entry over every media list    *)
(***************************************************************************)
EXTENDS Integers, Sequences, FiniteSets, TLC

NumFeeds == 2       \* feeds configured
MaxEntries == 2     \* entries one fetch of a feed returns, at most
MaxClock == 2       \* the clock runs from day 1 to day MaxClock
PostCap == 2        \* POSTs counted per entry id and run; PostCap stands for "or more"
MaxMedia == 2       \* items of entry.media_content, and inline images, at most

Ids == {"a", "b"}                 \* entry.id values
Links == {"u1"}          \* entry.link values
None == "None"                    \* an attribute the feed entry lacks
StatusCodes == {199, 200, 299, 300}
MaxAges == {0, 1}                 \* --max-age, 0 keeps forever
Body == "rate limited"            \* request.text

VARIABLES
    file,           \* content of the ledger file on disk
    temp,           \* content of the temporary file atomic_write is writing
    database_file,  \* self.database_file is set (config has 'database')
    database,       \* self.database
    options,        \* the argparse namespace of this invocation
    pc,             \* "idle", "feeds", "entries", "saving", "done", "fatal", "killed"
    feed,           \* position of `for feed in self.feeds`
    todo,           \* entries of data.entries the loop has not reached
    now,            \* datetime.datetime.now().timestamp()
    world,          \* <<>>: feeds may change between fetches; else what each feed returns
    posts,          \* history: POSTs issued in this run, per entry id (up to PostCap)
    answered,       \* history: ids a POST of this run was answered 2xx for
    observed,       \* history: ids of the entries the loop reached in this run
    failed,         \* history: the latest feed of this run whose fetch failed, 0 if none
    file0,          \* history: the ledger file when this run started
    flushes,        \* history: calls of flushdb in this run
    build,          \* the image step of process_entry: its inputs and the embed it made
    prev            \* history: summary of the run before this one (kept when world # <<>>)

vars == <<file, temp, database_file, database, options, pc, feed, todo, now, world,
          posts, answered, observed, failed, file0, flushes, build, prev>>

----------------------------------------------------------------------------
(* Python values *)

Put(d, k, v) == [x \in DOMAIN d \cup {k} |-> IF x = k THEN v ELSE d[x]]
EmptyDict == [x \in {} |-> 0]

SentTrue == [bool |-> TRUE]          \* row['sent'] = True
SentAt(t) == [time |-> t]            \* row['sent'] = now

\* the sent test as `row.get('sent') is True`: a timestamp does not count
TruthyBoolOnly(row) ==
    /\ "sent" \in DOMAIN row
    /\ row.sent = SentTrue

\* not row.get('sent'): a missing key, False and 0.0 are falsy
Truthy(row) ==
    /\ "sent" \in DOMAIN row
    /\ \/ row.sent = SentTrue
       \/ "time" \in DOMAIN row.sent /\ row.sent.time # 0

Entries == [id : Ids \cup {None}, link : Links \cup {None}, title : {None, "t"}]

Responses == {[raised |-> TRUE, status_code |-> 0]} \cup
             {[raised |-> FALSE, status_code |-> s] : s \in StatusCodes}

\* the webhook answered with a status in [200,300)
Is2xx(resp) == ~resp.raised /\ resp.status_code >= 200 /\ resp.status_code < 300

NoResponse == [raised |-> FALSE, status_code |-> 0]     \* no POST, no answer

Options == [dry_run : BOOLEAN, populate : BOOLEAN, max_age : MaxAges]

----------------------------------------------------------------------------
(* The ledger file *)

NoFile == [kind |-> "absent"]
Partial == [kind |-> "partial"]       \* a prefix of a serialisation
JsonFile(db) == [kind |-> "json", obj |-> db]

TextFile(lines) == [kind |-> "text", lines |-> lines]   \* not JSON: the old format
Unreadable == [kind |-> "unreadable"]     \* open or read raise (permissions, encoding)

\* a JSON value that is not an object: a list, a number, a string, null
NotDict(v) == [json |-> v]
IsMapping(db) == DOMAIN db \subseteq Ids

\* json.dump raises TypeError on the exception object of last_exception
Serializable(db) ==
    IsMapping(db) => \A id \in DOMAIN db : "last_exception" \notin DOMAIN db[id]

\* __init__: only FileNotFoundError and JSONDecodeError are caught
LoadRaises(configured, f) == configured /\ f.kind = "unreadable"

\* __init__: the database after construction; json.loads gives whatever value
\* the text denotes, text that is not JSON is read as one id per line
Load(configured, f, t) ==
    IF configured /\ f.kind = "json" THEN f.obj
    ELSE IF configured /\ f.kind = "text"
    THEN [id \in {f.lines[i] : i \in DOMAIN f.lines} |-> [last_seen |-> t]]
    ELSE EmptyDict

----------------------------------------------------------------------------
(* process_entry *)

\* row['errors'].push(...): a Python list has no push, AttributeError
ListPush(errors, rec) == [raised |-> TRUE, list |-> errors]

\* process_entry with the success test widened to status_code // 100 <= 2
process_entry_lax(opts, entry, row, resp, t) ==
    IF entry.title = None
    THEN [raised |-> TRUE, ret |-> FALSE, row |-> row, posted |-> FALSE]
    ELSE IF opts.dry_run
    THEN [raised |-> FALSE, ret |-> FALSE, row |-> row, posted |-> FALSE]
    ELSE IF resp.raised
    THEN [raised |-> TRUE, ret |-> FALSE, row |-> row, posted |-> TRUE]
    ELSE IF resp.status_code \div 100 <= 2
    THEN [raised |-> FALSE, ret |-> TRUE, row |-> row, posted |-> TRUE]
    ELSE LET row1 == IF "errors" \in DOMAIN row THEN row
                     ELSE Put(row, "errors", <<>>)
             push == ListPush(row1.errors,
                              [code |-> resp.status_code, text |-> Body, when |-> t])
         IN  [raised |-> push.raised, ret |-> FALSE,
              row |-> Put(row1, "errors", push.list), posted |-> TRUE]

\* the title is read while the payload is built, before the dry-run test and
\* the POST; an entry without one raises AttributeError there
process_entry(opts, entry, row, resp, t) ==
    IF entry.title = None
    THEN [raised |-> TRUE, ret |-> FALSE, row |-> row, posted |-> FALSE]
    ELSE IF opts.dry_run
    THEN [raised |-> FALSE, ret |-> FALSE, row |-> row, posted |-> FALSE]
    ELSE IF resp.raised
    THEN [raised |-> TRUE, ret |-> FALSE, row |-> row, posted |-> TRUE]
    ELSE IF resp.status_code \div 100 = 2
    THEN [raised |-> FALSE, ret |-> TRUE, row |-> row, posted |-> TRUE]
    ELSE LET row1 == IF "errors" \in DOMAIN row THEN row
                     ELSE Put(row, "errors", <<>>)
             push == ListPush(row1.errors,
                              [code |-> resp.status_code, text |-> Body, when |-> t])
         IN  [raised |-> push.raised, ret |-> FALSE,
              row |-> Put(row1, "errors", push.list), posted |-> TRUE]

\* the embed before the image step
BaseEmbed == [type |-> "rich", url |-> "link", author |-> "feed", description |-> "text"]

\* int(item['height']) of the attribute text
ToInt(text) == IF text = "600" THEN 600 ELSE IF text = "800" THEN 800 ELSE 0

MediaItems == [medium : {"image", "thumbnail", "video", None}, url : {"m1", "m2"},
               height : {None, "600"}, width : {None, "800"}]

\* for item in entry.media_content: item['medium'] raises KeyError when the
\* item has no medium
RECURSIVE MediaLoop(_, _)
MediaLoop(embed, items) ==
    IF items = <<>> THEN [raised |-> FALSE, embed |-> embed]
    ELSE LET item == Head(items) IN
         IF item.medium = None THEN [raised |-> TRUE, embed |-> embed]
         ELSE IF item.medium \in {"image", "thumbnail"} /\ item.medium \notin DOMAIN embed
         THEN MediaLoop(Put(embed, item.medium,
                            [url |-> item.url,
                             height |-> IF item.height # None THEN ToInt(item.height)
                                        ELSE None,
                             width |-> IF item.width # None THEN ToInt(item.width)
                                       ELSE None]),
                        Tail(items))
         ELSE MediaLoop(embed, Tail(items))

\* if config.include_image: ... ; has_media is 'media_content' in entry
AttachImage(include_image, has_media, media_content, images) ==
    IF ~include_image THEN [raised |-> FALSE, embed |-> BaseEmbed]
    ELSE IF has_media THEN MediaLoop(BaseEmbed, media_content)
    ELSE IF images # <<>>
    THEN [raised |-> FALSE, embed |-> Put(BaseEmbed, "thumbnail", [url |-> images[1]])]
    ELSE [raised |-> FALSE, embed |-> BaseEmbed]

----------------------------------------------------------------------------
(* process_feed: one iteration of `for entry in data.entries` *)

\* the lookup without its membership test: the record is always recreated
LookupFresh(db, id) == Put(db, id, EmptyDict)

\* if entry.id not in self.database: self.database[entry.id] = {}
Lookup(db, id) == IF id \in DOMAIN db THEN db ELSE Put(db, id, EmptyDict)

\* the iteration with the populate test moved before the sent test
IterationPopulateFirst(db, opts, entry, resp, t) ==
    IF entry.id = None \/ ~IsMapping(db)
    THEN [database |-> db, outcome |-> "abort", posted |-> FALSE]
    ELSE
    LET db1 == Lookup(db, entry.id) IN
    IF entry.link = None
    THEN [database |-> db1, outcome |-> "abort", posted |-> FALSE]
    ELSE
    LET row == Put(Put(db1[entry.id], "url", entry.link), "last_seen", t) IN
    IF opts.populate
    THEN [database |-> Put(db1, entry.id, Put(row, "sent", SentTrue)),
          outcome |-> "populate", posted |-> FALSE]
    ELSE IF Truthy(row)
    THEN [database |-> Put(db1, entry.id, row), outcome |-> "skip", posted |-> FALSE]
    ELSE
    LET r == process_entry(opts, entry, row, resp, t) IN
    IF r.raised
    THEN [database |-> Put(db1, entry.id,
                           Put(r.row, "last_exception",
                               [error |-> "Exception", time |-> t])),
          outcome |-> "exception", posted |-> r.posted]
    ELSE IF r.ret
    THEN [database |-> Put(db1, entry.id, Put(r.row, "sent", SentAt(t))),
          outcome |-> "sent", posted |-> r.posted]
    ELSE [database |-> Put(db1, entry.id, r.row),
          outcome |-> "unsent", posted |-> r.posted]

\* a database that is not a dict raises TypeError at the membership test or
\* at the item assignment, as a missing entry.id raises AttributeError
Iteration(db, opts, entry, resp, t) ==
    IF entry.id = None \/ ~IsMapping(db)
    THEN [database |-> db, outcome |-> "abort", posted |-> FALSE]
    ELSE
    LET db1 == Lookup(db, entry.id) IN
    IF entry.link = None
    THEN [database |-> db1, outcome |-> "abort", posted |-> FALSE]
    ELSE
    LET row == Put(Put(db1[entry.id], "url", entry.link), "last_seen", t) IN
    IF Truthy(row)
    THEN [database |-> Put(db1, entry.id, row), outcome |-> "skip", posted |-> FALSE]
    ELSE IF opts.populate
    THEN [database |-> Put(db1, entry.id, Put(row, "sent", SentTrue)),
          outcome |-> "populate", posted |-> FALSE]
    ELSE
    LET r == process_entry(opts, entry, row, resp, t) IN
    IF r.raised
    THEN [database |-> Put(db1, entry.id,
                           Put(r.row, "last_exception",
                               [error |-> "Exception", time |-> t])),
          outcome |-> "exception", posted |-> r.posted]
    ELSE IF r.ret
    THEN [database |-> Put(db1, entry.id, Put(r.row, "sent", SentAt(t))),
          outcome |-> "sent", posted |-> r.posted]
    ELSE [database |-> Put(db1, entry.id, r.row),
          outcome |-> "unsent", posted |-> r.posted]

----------------------------------------------------------------------------
(* flushdb *)

\* the save guard without its dry-run test
ShouldSaveAlways(configured, opts) == configured

\* if self.database_file and not options.dry_run
ShouldSave(configured, opts) == configured /\ ~opts.dry_run

\* the prune with its cutoff test turned into >=
PruneInclusive(db, opts, t) ==
    IF opts.max_age > 0
    THEN LET cutoff == t - opts.max_age
             keep == {id \in DOMAIN db :
                        "last_seen" \in DOMAIN db[id] /\ db[id].last_seen >= cutoff}
         IN  [id \in keep |-> db[id]]
    ELSE db

\* len() or .items() of a database that is not a dict
PruneRaises(db, opts) == opts.max_age > 0 /\ ~IsMapping(db)

Prune(db, opts, t) ==
    IF opts.max_age > 0
    THEN LET cutoff == t - opts.max_age
             keep == {id \in DOMAIN db :
                        "last_seen" \in DOMAIN db[id] /\ db[id].last_seen > cutoff}
         IN  [id \in keep |-> db[id]]
    ELSE db

----------------------------------------------------------------------------
(* State machine *)

\* one more POST
Count(n) == IF n < PostCap THEN n + 1 ELSE PostCap

NoOptions == [dry_run |-> FALSE, populate |-> FALSE, max_age |-> 0]   \* no run yet
NoBuild == [include_image |-> TRUE, has_media |-> FALSE, media_content |-> <<>>,
            images |-> <<>>,
            built |-> FALSE, raised |-> FALSE, embed |-> BaseEmbed]
NoPrev == [ran |-> FALSE, options |-> NoOptions,
           posts |-> [id \in Ids |-> 0], answered |-> {}]

Init ==
    /\ file = NoFile
    /\ temp = NoFile
    /\ database_file \in BOOLEAN
    /\ database = EmptyDict
    /\ options = NoOptions
    /\ pc = "idle"
    /\ feed = 1
    /\ todo = 0
    /\ now = 1
    /\ world = <<>>
    /\ posts = [id \in Ids |-> 0]
    /\ answered = {}
    /\ observed = {}
    /\ failed = 0
    /\ file0 = NoFile
    /\ flushes = 0
    /\ build = NoBuild
    /\ prev = NoPrev

Normal(opts) == ~opts.dry_run /\ ~opts.populate

\* main: rss = DiscordRSS(config); rss.process(options); an exception
\* __init__ does not catch ends the invocation before process
Start(opts) ==
    /\ pc = "idle"
    /\ database' = Load(database_file, file, now)
    /\ options' = opts
    /\ pc' = IF LoadRaises(database_file, file) THEN "fatal" ELSE "feeds"
    /\ file0' = file
    /\ UNCHANGED <<file, temp, database_file, feed, todo, now, world,
                   posts, answered, observed, failed, flushes, build, prev>>

\* the process ends: main returns, or dies of the exception flushdb raised,
\* or was killed; its memory is gone, the ledger file stays (a temporary file
\* left behind is never read again); w is what the feeds return from now on
Ending(w) ==
    /\ pc \in {"done", "fatal", "killed"}
    /\ pc' = "idle"
    /\ database' = EmptyDict
    /\ options' = NoOptions
    /\ feed' = 1
    /\ todo' = 0
    /\ posts' = [id \in Ids |-> 0]
    /\ answered' = {}
    /\ observed' = {}
    /\ failed' = 0
    /\ file0' = file
    /\ flushes' = 0
    /\ temp' = NoFile
    /\ prev' = IF world = <<>> THEN NoPrev
               ELSE [ran |-> TRUE, options |-> options,
                     posts |-> posts, answered |-> answered]
    /\ world' = w
    /\ UNCHANGED <<file, database_file, now, build>>

\* the feeds are the same ones at the next run
Exit == Ending(world)

\* ProcessFeed without the try/except of process: a raising fetch ends the run
ProcessFeedUncaught(parse, n) ==
    /\ pc = "feeds"
    /\ feed <= NumFeeds
    /\ world # <<>> => parse = world[feed].parse /\ n = Len(world[feed].entries)
    /\ IF parse = "ok" /\ n > 0
       THEN pc' = "entries" /\ todo' = n /\ feed' = feed
       ELSE IF parse = "raise"
       THEN pc' = "fatal" /\ todo' = 0 /\ feed' = feed
       ELSE pc' = "feeds" /\ todo' = 0 /\ feed' = feed + 1
    /\ failed' = IF parse = "ok" THEN failed ELSE feed
    /\ UNCHANGED <<file, temp, database_file, database, options, now, world,
                   posts, answered, observed, file0, flushes, build, prev>>

\* ProcessFeed saving the ledger before each fetch
ProcessFeedSaving(parse, n) ==
    /\ pc = "feeds"
    /\ feed <= NumFeeds
    /\ world # <<>> => parse = world[feed].parse /\ n = Len(world[feed].entries)
    /\ IF parse = "ok" /\ n > 0
       THEN pc' = "entries" /\ todo' = n /\ feed' = feed
       ELSE pc' = "feeds" /\ todo' = 0 /\ feed' = feed + 1
    /\ failed' = IF parse = "ok" THEN failed ELSE feed
    /\ file' = IF ShouldSave(database_file, options) /\ Serializable(database)
               THEN JsonFile(database) ELSE file
    /\ UNCHANGED <<temp, database_file, database, options, now, world,
                   posts, answered, observed, file0, flushes, build, prev>>

\* process + process_feed up to the entry loop; parse is what feedparser.parse
\* did: "raise" is an exception, caught by process; "bozo" is data.bozo set,
\* where process_feed returns (or raises while logging, caught alike)
ProcessFeed(parse, n) ==
    /\ pc = "feeds"
    /\ feed <= NumFeeds
    /\ world # <<>> => parse = world[feed].parse /\ n = Len(world[feed].entries)
    /\ IF parse = "ok" /\ n > 0
       THEN pc' = "entries" /\ todo' = n /\ feed' = feed
       ELSE pc' = "feeds" /\ todo' = 0 /\ feed' = feed + 1
    /\ failed' = IF parse = "ok" THEN failed ELSE feed
    /\ UNCHANGED <<file, temp, database_file, database, options, now, world,
                   posts, answered, observed, file0, flushes, build, prev>>

\* the loop goes on with the next configured feed, whatever its fetch gives;
\* the entries of a failed fetch are never looked at
FeedLoop ==
    \E parse \in {"ok", "bozo", "raise"} :
        \E n \in IF parse = "ok" THEN 0..MaxEntries ELSE {0} : ProcessFeed(parse, n)

\* what the webhook may answer: nothing when the iteration issues no POST
Answers(entry) ==
    IF Iteration(database, options, entry, NoResponse, now).posted
    THEN Responses ELSE {NoResponse}

\* one iteration of the entry loop, process_entry included; resp is the
\* webhook's answer to the POST it issues, if it issues one
ProcessEntry(entry, resp) ==
    /\ pc = "entries"
    /\ world # <<>> =>
          entry = world[feed].entries[Len(world[feed].entries) - todo + 1]
    /\ LET it == Iteration(database, options, entry, resp, now)
           more == it.outcome # "abort" /\ todo > 1
       IN  /\ database' = it.database
           /\ posts' = IF it.posted THEN [posts EXCEPT ![entry.id] = Count(@)] ELSE posts
           /\ answered' = IF it.posted /\ Is2xx(resp) THEN answered \cup {entry.id}
                          ELSE answered
           /\ observed' = IF entry.id = None THEN observed
                          ELSE observed \cup {entry.id}
           /\ IF more
              THEN pc' = "entries" /\ todo' = todo - 1 /\ feed' = feed
              ELSE pc' = "feeds" /\ todo' = 0 /\ feed' = feed + 1
    /\ UNCHANGED <<file, temp, database_file, options, now, world, failed, file0,
                   flushes, build, prev>>

\* the loop goes on with whatever entry the feed holds next
EntryLoop == \E entry \in Entries : \E resp \in Answers(entry) : ProcessEntry(entry, resp)

\* flushdb called as soon as one feed is behind, not after the loop
FlushdbEarly ==
    /\ pc = "feeds"
    /\ feed > 1
    /\ flushes' = flushes + 1
    /\ IF PruneRaises(database, options)
       THEN database' = database /\ pc' = "fatal" /\ temp' = temp
       ELSE /\ database' = Prune(database, options, now)
            /\ IF ShouldSave(database_file, options)
               THEN pc' = "saving" /\ temp' = Partial
               ELSE pc' = "done" /\ temp' = temp
    /\ UNCHANGED <<file, database_file, options, feed, todo, now, world,
                   posts, answered, observed, failed, file0, build, prev>>

\* flushdb writing the ledger path itself instead of a temporary file
FlushdbInPlace ==
    /\ pc = "feeds"
    /\ feed > NumFeeds
    /\ flushes' = flushes + 1
    /\ IF PruneRaises(database, options)
       THEN database' = database /\ pc' = "fatal" /\ file' = file
       ELSE /\ database' = Prune(database, options, now)
            /\ IF ShouldSave(database_file, options)
               THEN pc' = "saving" /\ file' = Partial
               ELSE pc' = "done" /\ file' = file
    /\ UNCHANGED <<temp, database_file, options, feed, todo, now, world,
                   posts, answered, observed, failed, file0, build, prev>>

\* process: self.flushdb(options) after the feed loop, up to the point where
\* json.dump is writing into the temporary file atomic_write opened
Flushdb ==
    /\ pc = "feeds"
    /\ feed > NumFeeds
    /\ flushes' = flushes + 1
    /\ IF PruneRaises(database, options)
       THEN database' = database /\ pc' = "fatal" /\ temp' = temp
       ELSE /\ database' = Prune(database, options, now)
            /\ IF ShouldSave(database_file, options)
               THEN pc' = "saving" /\ temp' = Partial
               ELSE pc' = "done" /\ temp' = temp
    /\ UNCHANGED <<file, database_file, options, feed, todo, now, world,
                   posts, answered, observed, failed, file0, build, prev>>

\* the rest of the with block: json.dump ends and atomic_write renames the
\* temporary file onto the ledger path, or json.dump raises, atomic_write
\* removes the temporary file and the exception leaves process
Save ==
    /\ pc = "saving"
    /\ IF Serializable(database)
       THEN file' = JsonFile(database) /\ pc' = "done"
       ELSE file' = file /\ pc' = "fatal"
    /\ temp' = NoFile
    /\ UNCHANGED <<database_file, database, options, feed, todo, now, world,
                   posts, answered, observed, failed, file0, flushes, build, prev>>

\* the process is killed (a signal, a power cut) anywhere in the run: its
\* memory is gone, the files stay as they are
Interrupt ==
    /\ pc \in {"feeds", "entries", "saving"}
    /\ pc' = "killed"
    /\ database' = EmptyDict
    /\ options' = NoOptions
    /\ feed' = 1
    /\ todo' = 0
    /\ UNCHANGED <<file, temp, database_file, now, world,
                   posts, answered, observed, failed, file0, flushes, build, prev>>

\* a day passes: between two runs, or between the feed loop and flushdb
\* (all entries of a run are observed on the same day)
Tick ==
    /\ pc = "idle" \/ (pc = "feeds" /\ feed > NumFeeds)
    /\ now < MaxClock
    /\ now' = now + 1
    /\ UNCHANGED <<file, temp, database_file, database, options, pc, feed, todo, world,
                   posts, answered, observed, failed, file0, flushes, build, prev>>

Next ==
    \/ \E opts \in Options : Start(opts)
    \/ FeedLoop
    \/ EntryLoop
    \/ Flushdb
    \/ Save
    \/ Interrupt
    \/ Exit
    \/ Tick

Spec == Init /\ [][Next]_vars

----------------------------------------------------------------------------
(* Consecutive plain runs over feeds that never change, ledger file configured *)

\* the entries of these feeds have an id and a link
WellFormed == {e \in Entries : e.id # None /\ e.link # None}

FeedResults ==
    {[parse |-> p, entries |-> <<>>] : p \in {"bozo", "raise"}} \cup
    {[parse |-> "ok", entries |-> s] :
        s \in UNION {[1..k -> WellFormed] : k \in 0..MaxEntries}}

InitRuns ==
    /\ file = NoFile
    /\ temp = NoFile
    /\ database_file = TRUE
    /\ database = EmptyDict
    /\ options = NoOptions
    /\ pc = "idle"
    /\ feed = 1
    /\ todo = 0
    /\ now = 1
    /\ world \in [1..NumFeeds -> FeedResults]
    /\ posts = [id \in Ids |-> 0]
    /\ answered = {}
    /\ observed = {}
    /\ failed = 0
    /\ file0 = NoFile
    /\ flushes = 0
    /\ build = NoBuild
    /\ prev = NoPrev

\* every run is a plain one, neither --dry-run nor --populate, and none is
\* killed
NextRuns ==
    \/ \E opts \in {o \in Options : Normal(o)} : Start(opts)
    \/ FeedLoop
    \/ EntryLoop
    \/ Flushdb
    \/ Save
    \/ Exit
    \/ Tick

SpecRuns == InitRuns /\ [][NextRuns]_vars

----------------------------------------------------------------------------
(* Consecutive plain runs over one feed whose entries change between runs *)

\* an entry with everything, and one without a link
RetryEntries == {[id |-> "a", link |-> "u1", title |-> "t"],
                 [id |-> "b", link |-> None, title |-> "t"]}

\* the first feed returns these entries, the other feeds fail
RetryWorlds ==
    {[f \in 1..NumFeeds |-> IF f = 1 THEN [parse |-> "ok", entries |-> s]
                            ELSE [parse |-> "bozo", entries |-> <<>>]] :
        s \in UNION {[1..k -> RetryEntries] : k \in 1..MaxEntries}}

InitRetry ==
    /\ file = NoFile
    /\ temp = NoFile
    /\ database_file = TRUE
    /\ database = EmptyDict
    /\ options = NoOptions
    /\ pc = "idle"
    /\ feed = 1
    /\ todo = 0
    /\ now = 1
    /\ world \in RetryWorlds
    /\ posts = [id \in Ids |-> 0]
    /\ answered = {}
    /\ observed = {}
    /\ failed = 0
    /\ file0 = NoFile
    /\ flushes = 0
    /\ build = NoBuild
    /\ prev = NoPrev

\* between two runs the feed may come to return other entries
FeedsChange == \E w \in RetryWorlds : Ending(w)

NextRetry ==
    \/ \E opts \in {o \in Options : Normal(o)} : Start(opts)
    \/ FeedLoop
    \/ EntryLoop
    \/ Flushdb
    \/ Save
    \/ FeedsChange
    \/ Tick

SpecRetry == InitRetry /\ [][NextRetry]_vars

\* id is the id of an entry of a feed that parses
Appears(id) ==
    \E f \in 1..NumFeeds :
        /\ world[f].parse = "ok"
        /\ \E i \in DOMAIN world[f].entries : world[f].entries[i].id = id

----------------------------------------------------------------------------
(* Runs that find a ledger file somebody else left at the path *)

LedgerFiles ==
    { NoFile, Unreadable,
      JsonFile([a |-> [url |-> "u1", last_seen |-> 1, sent |-> SentAt(1)]]),
      JsonFile(NotDict("list")), JsonFile(NotDict("null")),
      TextFile(<<>>), TextFile(<<"a">>), TextFile(<<"a", "b">>) }

InitLoad ==
    /\ file \in LedgerFiles
    /\ file0 = file
    /\ temp = NoFile
    /\ database_file \in BOOLEAN
    /\ database = EmptyDict
    /\ options = NoOptions
    /\ pc = "idle"
    /\ feed = 1
    /\ todo = 0
    /\ now = 1
    /\ world = <<>>
    /\ posts = [id \in Ids |-> 0]
    /\ answered = {}
    /\ observed = {}
    /\ failed = 0
    /\ flushes = 0
    /\ build = NoBuild
    /\ prev = NoPrev

SpecLoad == InitLoad /\ [][Next]_vars

----------------------------------------------------------------------------
(* The image step of process_entry on its own *)

Lists(S) == UNION {[1..k -> S] : k \in 0..MaxMedia}

InitEmbed ==
    /\ file = NoFile
    /\ file0 = NoFile
    /\ temp = NoFile
    /\ database_file = TRUE
    /\ database = EmptyDict
    /\ options = NoOptions
    /\ pc = "idle"
    /\ feed = 1
    /\ todo = 0
    /\ now = 1
    /\ world = <<>>
    /\ posts = [id \in Ids |-> 0]
    /\ answered = {}
    /\ observed = {}
    /\ failed = 0
    /\ flushes = 0
    /\ prev = NoPrev
    /\ \E c \in BOOLEAN, h \in BOOLEAN, i \in Lists({"i1", "i2"}) :
         \E m \in IF h THEN Lists(MediaItems) ELSE {<<>>} :
            build = [NoBuild EXCEPT !.include_image = c, !.has_media = h,
                                    !.media_content = m, !.images = i]

BuildEmbed ==
    /\ ~build.built
    /\ LET r == AttachImage(build.include_image, build.has_media,
                            build.media_content, build.images)
       IN  build' = [build EXCEPT !.built = TRUE, !.raised = r.raised, !.embed = r.embed]
    /\ UNCHANGED <<file, temp, database_file, database, options, pc, feed, todo, now,
                   world, posts, answered, observed, failed, file0, flushes, prev>>

SpecEmbed == InitEmbed /\ [][BuildEmbed]_vars

----------------------------------------------------------------------------
(* One run over a ledger of earlier runs, in which the entries had another link *)

RefreshRows ==
    { [url |-> "u0", last_seen |-> 1],
      [url |-> "u0", last_seen |-> 1, sent |-> SentTrue],
      [url |-> "u0", last_seen |-> 1, sent |-> SentAt(1)] }

RefreshLedgers == UNION {[S -> RefreshRows] : S \in SUBSET Ids}

InitRefresh ==
    /\ \E db \in RefreshLedgers :
          /\ file = JsonFile(db)
          /\ file0 = JsonFile(db)
          /\ database = db
    /\ temp = NoFile
    /\ database_file = TRUE
    /\ options \in Options
    /\ pc = "feeds"
    /\ feed = 1
    /\ todo = 0
    /\ now \in 1..MaxClock
    /\ world = <<>>
    /\ posts = [id \in Ids |-> 0]
    /\ answered = {}
    /\ observed = {}
    /\ failed = 0
    /\ flushes = 0
    /\ build = NoBuild
    /\ prev = NoPrev

NextRefresh == FeedLoop \/ EntryLoop \/ Flushdb \/ Save

SpecRefresh == InitRefresh /\ [][NextRefresh]_vars

----------------------------------------------------------------------------
(* flushdb on its own: a run that loaded a ledger and whose feeds all failed *)

FlushMaxAges == {-1, 0, 1, 2}        \* --max-age takes any int
FlushOptions == [dry_run : BOOLEAN, populate : BOOLEAN, max_age : FlushMaxAges]

\* records of earlier runs: one without last_seen, others last seen on day t
FlushRows ==
    {EmptyDict} \cup
    {[url |-> "u1", last_seen |-> t] : t \in 0..MaxClock} \cup
    {[url |-> "u1", last_seen |-> t, sent |-> SentAt(t)] : t \in 0..MaxClock}

FlushLedgers == UNION {[S -> FlushRows] : S \in SUBSET Ids}

InitFlush ==
    /\ \E db \in FlushLedgers :
          /\ file = JsonFile(db)
          /\ file0 = JsonFile(db)
          /\ database = db
    /\ temp = NoFile
    /\ database_file = TRUE
    /\ options \in FlushOptions
    /\ pc = "feeds"
    /\ feed = NumFeeds + 1
    /\ todo = 0
    /\ now \in 1..MaxClock
    /\ world = <<>>
    /\ posts = [id \in Ids |-> 0]
    /\ answered = {}
    /\ observed = {}
    /\ failed = NumFeeds
    /\ flushes = 0
    /\ build = NoBuild
    /\ prev = NoPrev

NextFlush == Flushdb \/ Save

SpecFlush == InitFlush /\ [][NextFlush]_vars

----------------------------------------------------------------------------
(* Reading the ledger *)

Row(db, id) == IF id \in DOMAIN db THEN db[id] ELSE EmptyDict
\* a field of a record as a 0- or 1-element tuple: <<>> when the key is absent
Field(db, id, k) == IF k \in DOMAIN Row(db, id) THEN <<Row(db, id)[k]>> ELSE <<>>
Errors(row) == IF "errors" \in DOMAIN row THEN row.errors ELSE <<>>
Running == pc \in {"feeds", "entries"}
Ended == pc \in {"done", "fatal"}
Loaded == Load(database_file, file0, now)     \* the ledger this run started from
NoPost == \A id \in Ids : posts[id] = 0

----------------------------------------------------------------------------
(* Claims *)

\* C1: idempotence across runs. After two consecutive plain runs over an
\* unchanged feed with a ledger file configured, an entry whose POST was
\* answered 2xx in the first run has had exactly one POST over both runs.
\* Stated for the entries posted once in the first run and for runs that
\* prune nothing (max_age = 0), whatever the webhook answered for the other
\* entries.
C1_OnePostOverTwoRuns ==
    ( /\ Ended /\ database_file /\ prev.ran
      /\ Normal(options) /\ Normal(prev.options)
      /\ options.max_age = 0 /\ prev.options.max_age = 0 ) =>
        \A id \in prev.answered :
            prev.posts[id] = 1 => prev.posts[id] + posts[id] = 1

\* C2: at the end of every run that is not a dry run and has a ledger file
\* configured, the ledger file holds exactly the pruned in-memory ledger,
\* whatever the delivery outcomes were.
C2_FileIsLedgerAtEnd ==
    (Ended /\ database_file /\ ~options.dry_run) => file = JsonFile(database)

\* C3: when the webhook answers an unsent entry with a status outside
\* [200,300), the iteration appends one error record {code, text, when} to the
\* end of the record's errors (earlier ones unchanged), leaves sent unset and
\* does not set last_exception.
C3_ErrorAppended ==
    [][\A entry \in Entries, resp \in Responses \cup {NoResponse} :
         ( /\ entry.id \in Ids
           /\ ProcessEntry(entry, resp)
           /\ Iteration(database, options, entry, resp, now).posted
           /\ ~resp.raised /\ ~Is2xx(resp) ) =>
         LET old == Row(database, entry.id)
             new == Row(database', entry.id)
         IN  /\ Errors(new) = Append(Errors(old),
                                     [code |-> resp.status_code, text |-> Body,
                                      when |-> now])
             /\ ~Truthy(new)
             /\ Field(database', entry.id, "last_exception")
                  = Field(database, entry.id, "last_exception")
      ]_vars

\* C4: under dry-run no record's delivery state changes in memory: for every
\* entry observed in a dry-run run, with any other flags (populate included),
\* the record's sent and errors are what they were when the run started
\* (absent stays absent). Stated for the records the ledger still holds.
C4_DryRunKeepsDeliveryState ==
    (options.dry_run /\ (Running \/ Ended)) =>
        \A id \in observed \cap DOMAIN database :
            /\ Field(database, id, "sent") = Field(Loaded, id, "sent")
            /\ Field(database, id, "errors") = Field(Loaded, id, "errors")

\* C5: a dry-run run issues no webhook POST and leaves the ledger file as it
\* was when the run started (absent stays absent), at every point of the run
\* and after it, for any feed contents and any max_age.
C5_DryRunPure ==
    (options.dry_run /\ (Running \/ Ended)) => (file = file0 /\ NoPost)

\* a dry-run run ended having observed an entry the ledger file does not
\* hold, so that the ledger in memory differs from the file
C5_Witness ==
    /\ pc = "done" /\ options.dry_run /\ database_file
    /\ file.kind = "json"
    /\ \E id \in observed : id \notin DOMAIN file.obj
    /\ database # file.obj

\* C6: within a run, a record whose sent is truthy and that still exists
\* after a step has sent truthy after it: no step of a run resets sent.
C6_SentOnlyForward ==
    [][Running =>
         \A id \in DOMAIN database \cap DOMAIN database' :
             Truthy(database[id]) => Truthy(database'[id])]_vars

\* a record that was sent when the run started was observed again, later, and
\* is still sent at the end of the run
C6_Witness ==
    /\ Ended
    /\ \E id \in observed \cap DOMAIN Loaded \cap DOMAIN database :
          /\ Truthy(Loaded[id]) /\ Truthy(database[id])
          /\ database[id].last_seen > Loaded[id].last_seen

C8_PopulateMarksAll ==
    (pc = "done" /\ options.populate) =>
        /\ NoPost
        /\ \A id \in observed \cap DOMAIN database :
              ~Truthy(Row(Loaded, id)) => Field(database, id, "sent") = <<SentTrue>>

\* C9: an unexpected failure raised while handling an entry, at any step (the
\* url refresh, building the payload, the POST), is recorded in the entry's
\* last_exception, leaves its sent unset and lets the loop go on to the next
\* entry of the feed.
C9_EntryFailureIsolated ==
    [][\A entry \in Entries, resp \in Responses \cup {NoResponse} :
         ( /\ entry.id \in Ids
           /\ ProcessEntry(entry, resp)
           /\ ~Truthy(Row(database, entry.id))
           /\ \/ entry.link = None
              \/ /\ ~options.populate
                 /\ \/ entry.title = None
                    \/ ~options.dry_run /\ resp.raised ) =>
         /\ Field(database', entry.id, "last_exception")
              = <<[error |-> "Exception", time |-> now]>>
         /\ ~Truthy(Row(database', entry.id))
         /\ todo > 1 => (pc' = "entries" /\ todo' = todo - 1 /\ feed' = feed)
      ]_vars

\* C10: when the fetch of a feed signals failure (bozo) or raises, that step
\* changes no record and issues no POST, and the run goes on with the next
\* configured feed; a run ends only after the loop has passed every feed.
C10_FeedFailureIsolated ==
    /\ [][(Running /\ failed' # failed) =>
            /\ failed' = feed
            /\ database' = database
            /\ posts' = posts
            /\ pc' = "feeds" /\ feed' = feed + 1 /\ todo' = 0]_vars
    /\ [](Ended => feed = NumFeeds + 1)

\* the first feed failed and entries of a later feed were processed in the
\* same run, which then ended
C10_Witness ==
    /\ Ended
    /\ failed = 1
    /\ observed # {}

\* C11: with max_age = N > 0 the flushdb step removes exactly the records
\* whose last_seen is missing or is <= now - N and keeps every other record
\* as it was; with max_age <= 0 it removes and changes nothing.
C11_PruneExact ==
    [][(pc = "feeds" /\ feed > NumFeeds /\ flushes' = flushes + 1) =>
         LET N == options.max_age
             stale == {id \in DOMAIN database :
                         \/ "last_seen" \notin DOMAIN database[id]
                         \/ database[id].last_seen <= now - N}
         IN  IF N > 0
             THEN /\ DOMAIN database' = DOMAIN database \ stale
                  /\ \A id \in DOMAIN database' : database'[id] = database[id]
             ELSE database' = database]_vars

\* a flush with max_age > 0 removed a record last seen exactly max_age days
\* ago and kept one seen a day later
C11_Witness ==
    /\ pc = "done" /\ options.max_age > 0
    /\ \E id \in DOMAIN Loaded \ DOMAIN database :
          /\ "last_seen" \in DOMAIN Loaded[id]
          /\ Loaded[id].last_seen = now - options.max_age
    /\ \E id \in DOMAIN database : database[id].last_seen = now - options.max_age + 1

\* C12: the file at the ledger path is never a partial serialisation; while
\* flushdb is writing, after it returned and after it raised, the file is
\* either what it was when the run started (absent included) or the complete
\* serialisation of the ledger; and a save that cannot serialise the ledger
\* ends the invocation with the exception, the file untouched.
C12_AtomicSave ==
    /\ [](file.kind \in {"absent", "json"})
    /\ [](pc \in {"saving", "done", "fatal", "killed"} =>
            (file = file0 \/ (pc = "done" /\ file = JsonFile(database))))
    /\ [][(pc = "saving" /\ ~Serializable(database) /\ pc' # "killed") =>
            (pc' = "fatal" /\ file' = file)]_vars

\* a save over an existing ledger file failed part-way: the run ended with
\* the exception and the file still holds the earlier ledger
C12_Witness ==
    /\ pc = "fatal" /\ flushes = 1
    /\ file.kind = "json" /\ file.obj # EmptyDict
    /\ file # JsonFile(database)

\* C13: constructing DiscordRSS never fails and leaves an id-to-record
\* mapping in memory, whatever is at the ledger path: the step that starts a
\* run goes on to the feeds, the database is a mapping, empty when there is
\* no file, and the file is not written.
C13_LoadNeverFatal ==
    [][(pc = "idle" /\ pc' # "idle") =>
         /\ pc' = "feeds"
         /\ IsMapping(database')
         /\ file.kind = "absent" => database' = EmptyDict
         /\ file' = file]_vars

\* C14: the embed process_entry builds carries at most one of the keys
\* image and thumbnail, for every list of media items and every list of
\* inline images, and neither when include_image is false.
C14_AtMostOneImage ==
    (build.built /\ ~build.raised) =>
        /\ Cardinality(DOMAIN build.embed \cap {"image", "thumbnail"}) <= 1
        /\ ~build.include_image => DOMAIN build.embed \cap {"image", "thumbnail"} = {}

\* C15: every entry the loop observed in this run has a record in the
\* in-memory ledger from then until the run ends, the prune of the run's flush
\* included, for every max_age.
C15_ObservedKeepsRecord ==
    (Running \/ pc \in {"saving", "done", "fatal"}) =>
        \A id \in observed : id \in DOMAIN database

\* C16: an iteration of the entry loop issues no POST for an id whose record
\* already has sent truthy and changes of that record at most url and
\* last_seen: sent, errors and last_exception stay as they were. When the
\* iteration observes such an entry (the first time in the run, or with a
\* change of its record) it issues no POST at all and leaves every other
\* record and the set of records as they were; what it changes is set from
\* the entry's link and the clock.
C16_SentEntryOnlyRefreshed ==
    [][(pc = "entries" /\ pc' # "killed") =>
         \A id \in Ids :
             Truthy(Row(database, id)) =>
             LET old == database[id]
                 new == Row(database', id)
             IN  /\ posts'[id] = posts[id]
                 /\ id \in DOMAIN database'
                 /\ DOMAIN new \ {"url", "last_seen"} = DOMAIN old \ {"url", "last_seen"}
                 /\ \A k \in DOMAIN old \ {"url", "last_seen"} : new[k] = old[k]
                 /\ new # old => (new.last_seen = now /\ new.url \in Links)
                 /\ (id \in observed' \ observed \/ new # old) =>
                       /\ posts' = posts /\ answered' = answered
                       /\ DOMAIN database' = DOMAIN database
                       /\ \A j \in DOMAIN database \ {id} : database'[j] = database[j]
      ]_vars

\* a record that was sent when the run started was observed with a new link
\* on a later day: no POST, same sent, the new url and last_seen, and the
\* other record of the ledger is as it was loaded
C16_Witness ==
    /\ Running
    /\ \E id \in observed \cap DOMAIN Loaded \cap DOMAIN database :
          /\ Truthy(Loaded[id]) /\ posts[id] = 0
          /\ database[id].sent = Loaded[id].sent
          /\ database[id].url # Loaded[id].url
          /\ database[id].last_seen > Loaded[id].last_seen
          /\ \E j \in DOMAIN Loaded \ {id} :
                j \in DOMAIN database /\ database[j] = Loaded[j]

\* C17: retry on the next run. When a plain run has ended, every entry for
\* which the previous plain run issued a POST that was not answered 2xx, and
\* which appears in a feed that parses in this run, has had a new POST in
\* this run; and a record whose POST was answered 2xx in this run has sent
\* set to a timestamp as long as the ledger holds it.
C17_RetryNextRun ==
    /\ (Ended /\ prev.ran /\ Normal(options) /\ Normal(prev.options)) =>
          \A id \in Ids :
              (prev.posts[id] > 0 /\ id \notin prev.answered /\ Appears(id)) =>
                  posts[id] > 0
    /\ (Running \/ Ended) =>
          \A id \in answered \cap DOMAIN database :
              \E t \in 1..MaxClock : Field(database, id, "sent") = <<SentAt(t)>>

\* C18 as claimed: at most one POST per entry id in a run, whatever the feeds
\* return.
C18_OnePostPerId ==
    (Running \/ Ended) => \A id \in Ids : posts[id] <= 1

\* C18 as amended: a step of a run issues at most one POST, in the entry
\* loop, for the id it observes and only while no POST of the run was
\* answered 2xx for that id and its record is unsent; an id has POSTs only
\* if the loop observed it. So an id returned once in the run has at most
\* one POST and a failed delivery is retried only when the id is returned
\* again.
C18_OnePostPerObservation ==
    /\ [][Running =>
            \A id \in Ids :
                posts'[id] # posts[id] =>
                    /\ pc = "entries"
                    /\ posts'[id] = Count(posts[id])
                    /\ id \notin answered
                    /\ ~Truthy(Row(database, id))
                    /\ id \in observed'
                    /\ id \notin observed => posts'[id] = 1
                    /\ \A j \in Ids \ {id} : posts'[j] = posts[j]]_vars
    /\ [](\A id \in Ids : posts[id] > 0 => id \in observed)

\* a run ended in which an id was returned more than once: its first POST
\* failed, a later one was answered 2xx
C18_Witness ==
    /\ Ended
    /\ \E id \in answered : posts[id] = 2 /\ Truthy(Row(database, id))

\* C19: as long as the final save of a run has not completed (in the feed
\* and entry loops, while flushdb writes, after flushdb raised, after the
\* process was killed) the ledger file is what it was when the run started,
\* so every record that was sent on disk before the run is sent on disk.
C19_InterruptedKeepsFile ==
    pc \in {"feeds", "entries", "saving", "fatal", "killed"} =>
        /\ file = file0
        /\ \A id \in DOMAIN Loaded :
              Truthy(Loaded[id]) =>
                  (file.kind = "json" /\ id \in DOMAIN file.obj /\ Truthy(file.obj[id]))

\* a run that had a POST answered 2xx was killed before its save; the file
\* still holds the sent record of an earlier run and not the new delivery
C19_Witness ==
    /\ pc = "killed" /\ database_file
    /\ \E id \in DOMAIN Loaded : Truthy(Loaded[id])
    /\ \E id \in answered : ~Truthy(Row(Loaded, id))

\* C20: flushdb is called exactly once in every run of process, and only
\* when the feed loop has passed every configured feed, also in runs in
\* which feeds fail: the call happens at the end of the loop and is the
\* first of the run, no run is in its loops after the call, and a run that
\* returned or raised has made the call.
C20_FlushOnceAtEnd ==
    /\ [][(flushes' # flushes /\ flushes' # 0) =>
            /\ pc = "feeds" /\ feed = NumFeeds + 1
            /\ flushes = 0 /\ flushes' = 1]_vars
    /\ [](Running => flushes = 0)
    /\ [](pc \in {"saving", "done", "fatal"} => flushes = 1)

\* a run returned after its one flush although its last feed failed, an
\* earlier feed having returned entries
C20_Witness ==
    /\ pc = "done" /\ flushes = 1
    /\ failed = NumFeeds
    /\ observed # {}

====
